---- MODULE Spec2Model ----
(***************************************************************************)
(* The task router of the todo backend (backend/app/routers/tasks.py):     *)
(* create_task, update_task, toggle_task and delete_task over the tasks    *)
(* table, with the best-effort event publishing each handler performs      *)
(* after its commit (Spec); get_tasks over a table of several users'       *)
(* tasks (ListSpec); registration and the two authentication dependencies  *)
(* over the users table (AuthSpec); the recurrence_patterns and reminders  *)
(* tables with the constraints of their schema (StoreSpec); the message    *)
(* of a chat request (ChatSpec); the task handlers behind the cookie       *)
(* dependency (GuardedSpec); the reminder topic next to the tasks table    *)
(* (StreamSpec); toggle_task and update_task running in several workers    *)
(* at once, one database statement or publish call at a time               *)
(* (ConcurrentSpec).                                                       *)
(*                                                                         *)
(* Python values are encoded as follows.                                   *)
(*   None            the empty tuple <<>>                                  *)
(*   a str / dict /  the one-element tuple <<v>> (Some(v)), so that an     *)
(*   datetime value  attribute that may hold None compares with != the     *)
(*                   way Python compares it                                *)
(*   datetime        [t |-> instant, tz |-> aware?]; Python never finds a  *)
(*                   naive and an aware datetime equal                     *)
(*   dict (JSON)     [keys |-> the keys present, channels |-> the list     *)
(*                   under "channels" when that key is present]            *)
(***************************************************************************)
EXTENDS Integers, Sequences, FiniteSets, TLC

\* ------------------------------------------------------------------ bounds
\* Rows the tasks table ever receives (ids come from a sequence, never reused).
MaxTasks == 1
\* Distinct reminder instants a client sends: 1..MaxTime.
MaxTime == 2
\* Readings of datetime.utcnow(): 0..MaxClock.
MaxClock == 1
\* Fields a PUT body sets at most.
MaxSupplied == 2

\* ------------------------------------------------------------ Python values
None == <<>>
Some(v) == <<v>>
Val(o) == o[1]

Users == {1, 2}
TaskIds == 1..MaxTasks

DateTime(t, aware) == [t |-> t, tz |-> aware]

\* Optional[datetime] as pydantic parses it from the request: an ISO string
\* without offset gives a naive datetime, one ending in "Z" an aware one.
RequestTimes == {None} \cup {Some(DateTime(t, a)) : t \in 1..MaxTime, a \in BOOLEAN}

\* The reminder_time column is TIMESTAMP (without time zone): what is read
\* back after commit + refresh is the naive datetime of the same instant.
StoreDateTime(o) == IF o = None THEN None ELSE Some(DateTime(Val(o).t, FALSE))

EmptyConfig == [keys |-> {}, channels |-> <<>>]
SoundConfig == [keys |-> {"sound"}, channels |-> <<>>]
PushConfig == [keys |-> {"channels"}, channels |-> <<"push">>]
Configs == {EmptyConfig, SoundConfig, PushConfig}
RequestConfigs == {None} \cup {Some(c) : c \in Configs}

Titles == {Some("a"), Some("b")}
Descriptions == {Some(""), Some("d")}
Priorities == {Some("medium"), Some("high")}

\* The fields TaskUpdate declares, all Optional with default None.
UpdatableFields == {"title", "description", "priority", "reminder_time", "reminder_config"}

\* TaskCreate after model_dump(): every field present, defaults filled in.
TaskCreates ==
    [title : Titles, description : Descriptions, priority : Priorities,
     reminder_time : RequestTimes, reminder_config : RequestConfigs]

\* TaskUpdate: `set` is pydantic's fields_set (what exclude_unset keeps); an
\* unset field holds its default None.  An explicit null is a set field.
TaskUpdates ==
    {b \in [set : SUBSET UpdatableFields,
            title : Titles \cup {None}, description : Descriptions \cup {None},
            priority : Priorities \cup {None},
            reminder_time : RequestTimes, reminder_config : RequestConfigs] :
        /\ Cardinality(b.set) <= MaxSupplied
        /\ \A f \in UpdatableFields \ b.set : b[f] = None}

\* ------------------------------------------------------------------- state
VARIABLES
    tasks,      \* the tasks table: id -> row
    next_id,    \* the id sequence of tasks.id
    now,        \* what datetime.utcnow() reads
    last,       \* the request being answered: what was asked, the response,
                \* the events attempted; Idle between requests
    users,      \* the users table: id -> row
    next_user_id,           \* the id sequence of users.id
    recurrence_patterns,    \* the recurrence_patterns table: id -> row
    reminders,  \* the reminders table: id -> row
    schema,     \* what created the Phase V tables: "alembic" or "create_all"
    reminder_stream,    \* the reminder topic as its consumer has it: task id ->
                        \* the reminder event published last for that task
    sessions    \* the requests running side by side: worker -> what its
                \* database session holds and how far its handler has run

vars == <<tasks, next_id, now, last, users, next_user_id, recurrence_patterns,
          reminders, schema, reminder_stream, sessions>>

\* The tables and settings the task router does not write.
other_tables == <<users, next_user_id, recurrence_patterns, reminders, schema,
                  reminder_stream, sessions>>

\* hash_password: the stored string is the bcrypt hash, never the password.
hash_password(password) == <<"bcrypt", password>>

\* A row of users.
User(id, email, password, clock) ==
    [id |-> id, email |-> email, hashed_password |-> hash_password(password),
     created_at |-> clock]

\* The accounts of the callers in Users, registered before the first request.
RegisteredUsers ==
    [id \in Users |-> User(id, IF id = 1 THEN "a@x.io" ELSE "b@x.io", "password1", 0)]

\* No handler makes more publish calls than update_task: the TaskUpdated one
\* and one reminder event.
MaxPublishCalls == 2

\* One boolean per publish call of a request: TRUE delivers, FALSE raises.
PublishOutcomes == [1..MaxPublishCalls -> BOOLEAN]

\* ----------------------------------------------------------------- helpers
ChannelsOfAnyConfig(reminder_config) ==
    IF reminder_config = None \/ Val(reminder_config).keys = {}
    THEN <<"email">>
    ELSE Val(reminder_config).channels

_get_notification_channels(reminder_config) ==
    IF reminder_config = None \/ Val(reminder_config).keys = {}
    THEN <<"email">>
    ELSE IF "channels" \in Val(reminder_config).keys
         THEN Val(reminder_config).channels
         ELSE <<"email">>

\* A database that accepts NULL in every column: no commit ever fails.
CommitAlwaysOk(task) == TRUE

\* NOT NULL columns of tasks: a flush that writes NULL into one raises IntegrityError.
CommitOk(task) ==
    /\ task.title # None
    /\ task.description # None
    /\ task.priority # None

\* session.commit(); session.refresh(task): the row as the database holds it.
Refresh(task) == [task EXCEPT !.reminder_time = StoreDateTime(@)]

HTTPException(db, code) == [db |-> db, status |-> code, body |-> None, events |-> <<>>]

\* One try block around all of a request's publish calls: after a failed
\* publish the later ones are not attempted.
TryPublishSharedTry(r, event, pub) ==
    IF r.events # <<>> /\ ~r.events[Len(r.events)].published
    THEN r
    ELSE [r EXCEPT !.events = Append(@, [event EXCEPT !.published = pub[Len(r.events) + 1]])]

\* A publish failure that is not caught: it ends the request with a server
\* error, and nothing after it runs.
TryPublishUncaught(r, event, pub) ==
    IF r.events # <<>> /\ ~r.events[Len(r.events)].published
    THEN r
    ELSE IF pub[Len(r.events) + 1]
         THEN [r EXCEPT !.events = Append(@, [event EXCEPT !.published = TRUE])]
         ELSE [r EXCEPT !.events = Append(@, event), !.status = 500, !.body = None]

\* A publisher call wrapped in one retry: a failed attempt is followed by a
\* second attempt of the same event.
TryPublishWithRetry(r, event, pub) ==
    LET n == Len(r.events) + 1
        delivered == IF n \in DOMAIN pub THEN pub[n] ELSE TRUE
    IN  IF delivered
        THEN [r EXCEPT !.events = Append(@, [event EXCEPT !.published = TRUE])]
        ELSE [r EXCEPT !.events = @ \o <<event, [event EXCEPT !.published = TRUE]>>]

\* try: await publisher.publish_*_event(event)  except Exception: logger.error(...)
\* The attempt is recorded with its outcome; the handler goes on either way.
TryPublish(r, event, pub) ==
    [r EXCEPT !.events = Append(@, [event EXCEPT !.published = pub[Len(r.events) + 1]])]

TaskCreatedEvent(task) ==
    [type |-> "task.created", task_id |-> task.id, user_id |-> task.user_id,
     title |-> task.title, description |-> task.description,
     priority |-> task.priority, published |-> FALSE]

TaskUpdatedEvent(task, changes, previous_values) ==
    [type |-> "task.updated", task_id |-> task.id, user_id |-> task.user_id,
     changes |-> changes, previous_values |-> previous_values, published |-> FALSE]

TaskDeletedEvent(task) ==
    [type |-> "task.deleted", task_id |-> task.id, user_id |-> task.user_id,
     title |-> task.title, was_complete |-> task.is_complete, published |-> FALSE]

ReminderScheduledByEmail(task) ==
    [type |-> "reminder.scheduled", task_id |-> task.id, user_id |-> task.user_id,
     scheduled_time |-> task.reminder_time,
     notification_channels |-> <<"email">>, published |-> FALSE]

TaskReminderScheduledEvent(task) ==
    [type |-> "reminder.scheduled", task_id |-> task.id, user_id |-> task.user_id,
     scheduled_time |-> task.reminder_time,
     notification_channels |-> _get_notification_channels(task.reminder_config),
     published |-> FALSE]

ReminderCancelledEvent(task, reason, clock) ==
    [type |-> "reminder.cancelled", task_id |-> task.id, user_id |-> task.user_id,
     reason |-> reason, cancelled_at |-> clock, published |-> FALSE]

\* ---------------------------------------------------------------- handlers
\* if task.user_id != current_user.id: raise HTTPException(403)
NotOwnerAlways(task, current_user) == FALSE
NotOwner(task, current_user) == task.user_id # current_user

\* if old_value != value  (Python's !=; a str-mixin PriorityEnum member equals
\* its value, so the stored priority compares as the string)
DiffersWhenSupplied(old_value, value) == TRUE
Differs(old_value, value) == old_value # value

\* task.updated_at = datetime.utcnow(), outside the loop: on every update
UpdatedAtIfChanged(old, changes, clock) ==
    IF DOMAIN changes = {} THEN old.updated_at ELSE clock
UpdatedAt(old, changes, clock) == clock

\* reminder_time_changed = "reminder_time" in changes
ReminderTimeSupplied(task_data, changes) == "reminder_time" \in task_data.set
ReminderTimeChanged(task_data, changes) == "reminder_time" \in DOMAIN changes

\* if previous_reminder_time and not task.reminder_time
ReminderNeverRemoved(previous_reminder_time, task) == FALSE
ReminderRemoved(previous_reminder_time, task) ==
    previous_reminder_time # None /\ task.reminder_time = None

\* elif task.reminder_time
ReminderAddedOnly(previous_reminder_time, task) ==
    previous_reminder_time = None /\ task.reminder_time # None
ReminderAddedOrChanged(previous_reminder_time, task) == task.reminder_time # None

\* had_reminder = task.reminder_time is not None
HadReminder(task) == task.reminder_time # None

create_task(db, id, current_user, task_data, clock, pub) ==
    LET new == [id |-> id, user_id |-> current_user,
                title |-> task_data.title, description |-> task_data.description,
                priority |-> task_data.priority, is_complete |-> FALSE,
                created_at |-> clock, updated_at |-> clock,
                reminder_time |-> task_data.reminder_time,
                reminder_config |-> task_data.reminder_config]
        task == Refresh(new)
        r0 == [db |-> [i \in DOMAIN db \cup {id} |-> IF i = id THEN task ELSE db[i]],
               status |-> 201, body |-> Some(task), events |-> <<>>]
        r1 == TryPublish(r0, TaskCreatedEvent(task), pub)
    IN  IF task.reminder_time # None
        THEN TryPublish(r1, TaskReminderScheduledEvent(task), pub)
        ELSE r1

update_task(db, task_id, current_user, task_data, clock, pub) ==
    IF task_id \notin DOMAIN db THEN HTTPException(db, 404)
    ELSE IF NotOwner(db[task_id], current_user) THEN HTTPException(db, 403)
    ELSE
    LET old == db[task_id]
        previous_reminder_time == old.reminder_time
        changed == {key \in task_data.set : Differs(old[key], task_data[key])}
        changes == [key \in changed |-> task_data[key]]
        previous_values == [key \in changed |-> old[key]]
        assigned == [f \in DOMAIN old |->
                        IF f \in changed THEN task_data[f]
                        ELSE IF f = "updated_at" THEN UpdatedAt(old, changes, clock)
                        ELSE old[f]]
    IN  IF ~CommitOk(assigned) THEN HTTPException(db, 500)
        ELSE
        LET task == Refresh(assigned)
            r0 == [db |-> [db EXCEPT ![task_id] = task],
                   status |-> 200, body |-> Some(task), events |-> <<>>]
            r1 == IF changed # {}
                  THEN TryPublish(r0, TaskUpdatedEvent(task, changes, previous_values), pub)
                  ELSE r0
        IN  IF ReminderTimeChanged(task_data, changes)
            THEN IF ReminderRemoved(previous_reminder_time, task)
                 THEN TryPublish(r1, ReminderCancelledEvent(task, "reminder_removed", clock), pub)
                 ELSE IF ReminderAddedOrChanged(previous_reminder_time, task)
                      THEN TryPublish(r1, TaskReminderScheduledEvent(task), pub)
                      ELSE r1
            ELSE r1

\* A handler that marks the task complete instead of negating the flag.
mark_complete_task(db, task_id, current_user, clock, pub) ==
    IF task_id \notin DOMAIN db THEN HTTPException(db, 404)
    ELSE IF NotOwner(db[task_id], current_user) THEN HTTPException(db, 403)
    ELSE
    LET old == db[task_id]
        task == [old EXCEPT !.is_complete = TRUE, !.updated_at = clock]
        r0 == [db |-> [db EXCEPT ![task_id] = task],
               status |-> 200, body |-> Some(task), events |-> <<>>]
    IN  TryPublish(r0,
                   TaskUpdatedEvent(task, [k \in {"is_complete"} |-> task.is_complete],
                                    [k \in {"is_complete"} |-> old.is_complete]),
                   pub)

toggle_task(db, task_id, current_user, clock, pub) ==
    IF task_id \notin DOMAIN db THEN HTTPException(db, 404)
    ELSE IF NotOwner(db[task_id], current_user) THEN HTTPException(db, 403)
    ELSE
    LET old == db[task_id]
        previous_is_complete == old.is_complete
        task == [old EXCEPT !.is_complete = ~old.is_complete, !.updated_at = clock]
        r0 == [db |-> [db EXCEPT ![task_id] = task],
               status |-> 200, body |-> Some(task), events |-> <<>>]
    IN  TryPublish(r0,
                   TaskUpdatedEvent(task, [k \in {"is_complete"} |-> task.is_complete],
                                    [k \in {"is_complete"} |-> previous_is_complete]),
                   pub)

\* A handler that checks the owner only after the delete is committed.
delete_before_check_task(db, task_id, current_user, clock, pub) ==
    IF task_id \notin DOMAIN db THEN HTTPException(db, 404)
    ELSE IF NotOwner(db[task_id], current_user)
         THEN HTTPException([i \in DOMAIN db \ {task_id} |-> db[i]], 403)
         ELSE LET r0 == [db |-> [i \in DOMAIN db \ {task_id} |-> db[i]],
                         status |-> 204, body |-> None, events |-> <<>>]
                  r1 == TryPublish(r0, TaskDeletedEvent(db[task_id]), pub)
              IN  IF HadReminder(db[task_id])
                  THEN TryPublish(r1, ReminderCancelledEvent(db[task_id], "task_deleted", clock), pub)
                  ELSE r1

delete_task(db, task_id, current_user, clock, pub) ==
    IF task_id \notin DOMAIN db THEN HTTPException(db, 404)
    ELSE IF NotOwner(db[task_id], current_user) THEN HTTPException(db, 403)
    ELSE
    LET task == db[task_id]
        had_reminder == HadReminder(task)
        r0 == [db |-> [i \in DOMAIN db \ {task_id} |-> db[i]],
               status |-> 204, body |-> None, events |-> <<>>]
        r1 == TryPublish(r0, TaskDeletedEvent(task), pub)
    IN  IF had_reminder
        THEN TryPublish(r1, ReminderCancelledEvent(task, "task_deleted", clock), pub)
        ELSE r1

\* ----------------------------------------------------------------- actions
\* Requests are served one at a time, each as one step: the handler's reads,
\* its commit and its publish attempts.  Outcomes of publish calls the request
\* never makes are fixed to TRUE so that one request is one step.
Idle == [op |-> "none", status |-> 0, events |-> <<>>, before |-> <<>>]

Unused(r, pub) == \A i \in DOMAIN pub : i > Len(r.events) => pub[i]

Served(op, task_id, current_user, task_data, pub, r) ==
    /\ last = Idle
    /\ Unused(r, pub)
    /\ tasks' = r.db
    /\ last' = [op |-> op, task_id |-> task_id, user |-> current_user,
                task_data |-> task_data, clock |-> now, pub |-> pub,
                before |-> tasks, status |-> r.status, body |-> r.body,
                events |-> r.events]
    /\ UNCHANGED <<now, other_tables>>

CreateTask ==
    /\ next_id <= MaxTasks
    /\ \E current_user \in Users, task_data \in TaskCreates,
          pub \in PublishOutcomes :
          /\ Served("create_task", next_id, current_user, task_data, pub,
                    create_task(tasks, next_id, current_user, task_data, now, pub))
          /\ next_id' = next_id + 1

UpdateTask ==
    \E task_id \in TaskIds, current_user \in Users, task_data \in TaskUpdates,
       pub \in PublishOutcomes :
       /\ Served("update_task", task_id, current_user, task_data, pub,
                 update_task(tasks, task_id, current_user, task_data, now, pub))
       /\ UNCHANGED next_id

ToggleTask ==
    \E task_id \in TaskIds, current_user \in Users, pub \in PublishOutcomes :
       /\ Served("toggle_task", task_id, current_user, None, pub,
                 toggle_task(tasks, task_id, current_user, now, pub))
       /\ UNCHANGED next_id

DeleteTask ==
    \E task_id \in TaskIds, current_user \in Users, pub \in PublishOutcomes :
       /\ Served("delete_task", task_id, current_user, None, pub,
                 delete_task(tasks, task_id, current_user, now, pub))
       /\ UNCHANGED next_id

\* The response leaves; the next request may be served.
Respond ==
    /\ last # Idle
    /\ last' = Idle
    /\ UNCHANGED <<tasks, next_id, now, other_tables>>

\* Time passes between requests.
Tick ==
    /\ last = Idle
    /\ now < MaxClock
    /\ now' = now + 1
    /\ UNCHANGED <<tasks, next_id, last, other_tables>>

Init ==
    /\ tasks = <<>>
    /\ next_id = 1
    /\ now = 0
    /\ last = Idle
    /\ users = RegisteredUsers
    /\ next_user_id = Cardinality(Users) + 1
    /\ recurrence_patterns = <<>>
    /\ reminders = <<>>
    /\ schema = "alembic"
    /\ reminder_stream = <<>>
    /\ sessions = <<>>

Next == CreateTask \/ UpdateTask \/ ToggleTask \/ DeleteTask \/ Respond \/ Tick

Spec == Init /\ [][Next]_vars

\* ------------------------------------------------- listing a user's tasks
\* Rows the tasks table receives while lists are taken.
MaxListed == 3

\* Every publish call delivers.
AllDelivered == [i \in 1..MaxPublishCalls |-> TRUE]

\* TaskCreate bodies that set the title only: the defaults for the rest.
PlainTaskCreates ==
    {b \in TaskCreates : /\ b.description = Some("")
                         /\ b.priority = Some("medium")
                         /\ b.reminder_time = None
                         /\ b.reminder_config = None}

\* .where(Task.user_id == current_user.id)
WhereAnyUser(task, current_user) == TRUE
WhereUser(task, current_user) == task.user_id = current_user

\* The sequences that hold each element of S once.
Orderings(S) ==
    {o \in [1..Cardinality(S) -> S] : \A i, j \in 1..Cardinality(S) : o[i] = o[j] => i = j}

\* .order_by(Task.created_at.desc()): SQL fixes no order among rows of equal
\* created_at.
NewestFirst(db, o) ==
    \A i, j \in DOMAIN o : i < j => db[o[i]].created_at >= db[o[j]].created_at

\* session.exec(statement).all(): the results the query may return.
get_tasks(db, current_user) ==
    LET ids == {i \in DOMAIN db : WhereUser(db[i], current_user)}
    IN  {[k \in DOMAIN o |-> db[o[k]]] : o \in {q \in Orderings(ids) : NewestFirst(db, q)}}

ListCreate ==
    /\ next_id <= MaxListed
    /\ \E current_user \in Users, task_data \in PlainTaskCreates :
          /\ Served("create_task", next_id, current_user, task_data, AllDelivered,
                    create_task(tasks, next_id, current_user, task_data, now, AllDelivered))
          /\ next_id' = next_id + 1

ListDelete ==
    \E task_id \in 1..MaxListed, current_user \in Users :
       /\ Served("delete_task", task_id, current_user, None, AllDelivered,
                 delete_task(tasks, task_id, current_user, now, AllDelivered))
       /\ UNCHANGED next_id

GetTasks ==
    /\ last = Idle
    /\ \E current_user \in Users :
          \E body \in get_tasks(tasks, current_user) :
             last' = [op |-> "get_tasks", user |-> current_user, before |-> tasks,
                      status |-> 200, body |-> body, events |-> <<>>]
    /\ UNCHANGED <<tasks, next_id, now, other_tables>>

ListNext == ListCreate \/ ListDelete \/ GetTasks \/ Respond \/ Tick

ListSpec == Init /\ [][ListNext]_vars

\* ---------------------------------------------------------- authentication
\* Rows the users table receives (ids come from a sequence, never reused).
MaxUsers == 2

\* ACCESS_TOKEN_EXPIRE_HOURS; the clock counts hours.
ACCESS_TOKEN_EXPIRE_HOURS == 24

\* str.lower() on the strings that occur.
lower(str) ==
    CASE str = "A@X.io" -> "a@x.io"
      [] str = "Development" -> "development"
      [] OTHER -> str

Emails == {"a@x.io", "A@X.io", "b@x.io"}
Passwords == {"password1"}
UserRegisters == [email : Emails, password : Passwords]

\* What the access_token cookie may hold.  A token is what jwt.decode sees in
\* it: whether the signature verifies under SECRET_KEY, and the claims exp
\* and user_id of its payload, each present or not.
Tokens ==
    [signed : BOOLEAN,
     exp : {None} \cup {Some(t) : t \in 0..MaxClock},
     user_id : {None} \cup {Some(n) : n \in 0..(MaxUsers + 1)}]
Cookies == {None} \cup {Some(t) : t \in Tokens}

\* os.getenv("ENVIRONMENT"): unset, or the value set.
Environments ==
    {None, Some("production"), Some("staging"), Some("development"), Some("Development")}

create_jwt(user_id, clock) ==
    [signed |-> TRUE, exp |-> Some(clock + ACCESS_TOKEN_EXPIRE_HOURS),
     user_id |-> Some(user_id)]

\* jwt.decode that does not look at exp.
decode_jwt_ignoring_exp(token, clock) ==
    IF token.signed THEN Some([exp |-> token.exp, user_id |-> token.user_id]) ELSE None

\* jwt.decode raises JWTError for a bad signature and for an exp in the past
\* (exp < now); decode_jwt then returns None, otherwise the payload.
decode_jwt(token, clock) ==
    IF token.signed /\ (token.exp = None \/ Val(token.exp) >= clock)
    THEN Some([exp |-> token.exp, user_id |-> token.user_id])
    ELSE None

Unauthorized == [status |-> 401, user |-> None]

get_current_user(db, access_token, clock) ==
    IF access_token = None THEN Unauthorized
    ELSE LET payload == decode_jwt(Val(access_token), clock)
         IN  \* if not payload: None, or a payload without any claim
             IF payload = None \/ (Val(payload).exp = None /\ Val(payload).user_id = None)
             THEN Unauthorized
             ELSE LET user_id == Val(payload).user_id
                  IN  \* if not user_id: absent, or 0
                      IF user_id = None \/ Val(user_id) = 0 THEN Unauthorized
                      ELSE IF Val(user_id) \notin DOMAIN db THEN Unauthorized
                      ELSE [status |-> 200, user |-> Some(db[Val(user_id)])]

\* The unique index on users.email.
EmailTaken(db, email) == \E id \in DOMAIN db : db[id].email = email

\* session.add(user); session.commit(): the sequence hands out its next value
\* whether or not the insert is then accepted.
InsertUser(db, seq, email, password, clock) ==
    IF EmailTaken(db, email)
    THEN [ok |-> FALSE, users |-> db, next_user_id |-> seq + 1, user |-> None]
    ELSE LET user == User(seq, email, password, clock)
         IN  [ok |-> TRUE,
              users |-> [id \in DOMAIN db \cup {seq} |-> IF id = seq THEN user ELSE db[id]],
              next_user_id |-> seq + 1, user |-> Some(user)]

\* A bypass that is on unless the environment is named production.
DevModeUnlessProduction(environment) ==
    lower(IF environment = None THEN "production" ELSE Val(environment)) # "production"

\* environment = os.getenv("ENVIRONMENT", "production").lower()
\* if environment == "development"
DevMode(environment) ==
    lower(IF environment = None THEN "production" ELSE Val(environment)) = "development"

get_dev_or_current_user(db, seq, environment, access_token, clock) ==
    IF DevMode(environment)
    THEN IF 1 \in DOMAIN db
         THEN [users |-> db, next_user_id |-> seq, status |-> 200, user |-> Some(db[1])]
         ELSE LET r == InsertUser(db, seq, "dev@local.test", "dev123", clock)
              IN  [users |-> r.users, next_user_id |-> r.next_user_id,
                   status |-> IF r.ok THEN 200 ELSE 500, user |-> r.user]
    ELSE \* the function's own copy of the checks of get_current_user
         LET Rejected == [users |-> db, next_user_id |-> seq, status |-> 401, user |-> None]
         IN  IF access_token = None THEN Rejected
             ELSE LET payload == decode_jwt(Val(access_token), clock)
                  IN  IF payload = None
                         \/ (Val(payload).exp = None /\ Val(payload).user_id = None)
                      THEN Rejected
                      ELSE LET user_id == Val(payload).user_id
                           IN  IF user_id = None \/ Val(user_id) = 0 THEN Rejected
                               ELSE IF Val(user_id) \notin DOMAIN db THEN Rejected
                               ELSE [users |-> db, next_user_id |-> seq, status |-> 200,
                                     user |-> Some(db[Val(user_id)])]

\* email=user_data.email.lower()
EmailAsGiven(email) == email
StoredEmail(email) == lower(email)

register(db, seq, user_data, clock) ==
    LET r == InsertUser(db, seq, StoredEmail(user_data.email), user_data.password, clock)
    IN  IF ~r.ok
        THEN \* except IntegrityError: session.rollback(); raise HTTPException(409)
             [users |-> db, next_user_id |-> r.next_user_id, status |-> 409,
              user |-> None, cookie |-> None]
        ELSE [users |-> r.users, next_user_id |-> r.next_user_id, status |-> 201,
              user |-> r.user, cookie |-> Some(create_jwt(Val(r.user).id, clock))]

AuthServed(op, request, r, cookie) ==
    /\ last = Idle
    /\ users' = r.users
    /\ next_user_id' = r.next_user_id
    /\ last' = [op |-> op, request |-> request, clock |-> now, users_before |-> users,
                status |-> r.status, body |-> r.user, cookie |-> cookie, events |-> <<>>]
    /\ UNCHANGED <<tasks, next_id, now, recurrence_patterns, reminders, schema,
                   reminder_stream, sessions>>

Register ==
    /\ next_user_id <= MaxUsers
    /\ \E user_data \in UserRegisters :
          LET r == register(users, next_user_id, user_data, now)
          IN  AuthServed("register", user_data, r, r.cookie)

GetCurrentUser ==
    \E access_token \in Cookies :
       LET r == get_current_user(users, access_token, now)
       IN  AuthServed("get_current_user", [access_token |-> access_token],
                      [users |-> users, next_user_id |-> next_user_id,
                       status |-> r.status, user |-> r.user], None)

GetDevOrCurrentUser ==
    \E environment \in Environments, access_token \in Cookies :
       AuthServed("get_dev_or_current_user",
                  [environment |-> environment, access_token |-> access_token],
                  get_dev_or_current_user(users, next_user_id, environment,
                                          access_token, now),
                  None)

AuthInit ==
    /\ tasks = <<>>
    /\ next_id = 1
    /\ now = 0
    /\ last = Idle
    /\ users = <<>>
    /\ next_user_id = 1
    /\ recurrence_patterns = <<>>
    /\ reminders = <<>>
    /\ schema = "alembic"
    /\ reminder_stream = <<>>
    /\ sessions = <<>>

AuthNext == Register \/ GetCurrentUser \/ GetDevOrCurrentUser \/ Respond \/ Tick

AuthSpec == AuthInit /\ [][AuthNext]_vars

\* ----------------------------------------- recurrence patterns, reminders
\* Rows the recurrence_patterns table receives.
MaxPatterns == 1
\* Rows the reminders table receives.
MaxReminders == 2

\* The Phase V tables exist either because migration 004 created them or
\* because create_db_and_tables() did, at startup, from the SQLModel classes:
\* SQLModel.metadata.create_all creates the tables that are missing.
Schemas == {"alembic", "create_all"}

\* FrequencyEnum
Frequencies == {"daily", "weekly", "monthly", "yearly", "custom"}

\* The RecurrencePattern rows a writer sends: the columns the constraints of
\* the table read.
PatternRows ==
    [frequency : {"daily", "hourly"}, interval : -1..1,
     end_date : {None} \cup {Some(t) : t \in 1..1},
     max_occurrences : {None} \cup {Some(n) : n \in 1..1}]

\* ck_recurrence_frequency; in a table made from the class, the enum type of
\* the column
FrequencyOk(row) == row.frequency \in Frequencies

\* ck_recurrence_interval_positive: interval > 0
IntervalPositive(row) == row.interval > 0

\* ck_recurrence_end_condition: (end_date IS NULL) OR (max_occurrences IS NULL)
EndConditionOk(row) == row.end_date = None \/ row.max_occurrences = None

\* What the table accepts.  The CHECK constraints are statements of migration
\* 004; the RecurrencePattern class declares none, so a table made from the
\* class has none.
PatternAccepted(created_by, row) ==
    /\ FrequencyOk(row)
    /\ created_by = "alembic" => (IntervalPositive(row) /\ EndConditionOk(row))

\* INSERT or UPDATE of a recurrence_patterns row.
WritePattern ==
    /\ last = Idle
    /\ \E id \in 1..MaxPatterns, row \in PatternRows :
          LET accepted == PatternAccepted(schema, row)
          IN  /\ recurrence_patterns' =
                    IF accepted
                    THEN [i \in DOMAIN recurrence_patterns \cup {id} |->
                             IF i = id THEN row ELSE recurrence_patterns[i]]
                    ELSE recurrence_patterns
              /\ last' = [op |-> "write_pattern", id |-> id, row |-> row,
                          accepted |-> accepted, events |-> <<>>]
    /\ UNCHANGED <<tasks, next_id, now, users, next_user_id, reminders, schema,
                   reminder_stream, sessions>>

\* ck_reminders_status; in a table made from the class, the enum type of the
\* column
StatusOk(reminder) == reminder.status \in {"pending", "fired", "cancelled"}

\* Reminder(...): status defaults to pending, fired_at to None.
Reminder(id, scheduled_time, clock) ==
    [id |-> id, scheduled_time |-> scheduled_time, status |-> "pending",
     created_at |-> clock, fired_at |-> None]

\* A reminder may be cancelled whatever its status.
CancellableAlways(reminder) == TRUE
\* pending -> cancelled
Cancellable(reminder) == reminder.status = "pending"

Cancelled(reminder) == [reminder EXCEPT !.status = "cancelled"]

\* A worker that marks the reminder fired and records no time.
FiredWithoutTime(reminder, clock) == [reminder EXCEPT !.status = "fired"]
\* pending -> fired, by the worker, at or after scheduled_time
Fired(reminder, clock) == [reminder EXCEPT !.status = "fired", !.fired_at = Some(clock)]

ReminderWritten(op, id, applied, row) ==
    /\ last = Idle
    /\ reminders' = IF applied /\ StatusOk(row)
                    THEN [i \in DOMAIN reminders \cup {id} |->
                             IF i = id THEN row ELSE reminders[i]]
                    ELSE reminders
    /\ last' = [op |-> op, id |-> id, applied |-> applied, before |-> reminders,
                events |-> <<>>]
    /\ UNCHANGED <<tasks, next_id, now, users, next_user_id, recurrence_patterns, schema,
                   reminder_stream, sessions>>

ScheduleReminder ==
    \E id \in 1..MaxReminders, scheduled_time \in 0..MaxClock :
       /\ id \notin DOMAIN reminders
       /\ ReminderWritten("schedule_reminder", id, TRUE, Reminder(id, scheduled_time, now))

CancelReminder ==
    \E id \in DOMAIN reminders :
       ReminderWritten("cancel_reminder", id, Cancellable(reminders[id]),
                       Cancelled(reminders[id]))

FireReminder ==
    \E id \in DOMAIN reminders :
       /\ now >= reminders[id].scheduled_time
       /\ ReminderWritten("fire_reminder", id, reminders[id].status = "pending",
                          Fired(reminders[id], now))

StoreInit ==
    /\ tasks = <<>>
    /\ next_id = 1
    /\ now = 0
    /\ last = Idle
    /\ users = RegisteredUsers
    /\ next_user_id = Cardinality(Users) + 1
    /\ recurrence_patterns = <<>>
    /\ reminders = <<>>
    /\ schema \in Schemas
    /\ reminder_stream = <<>>
    /\ sessions = <<>>

StoreNext ==
    WritePattern \/ ScheduleReminder \/ CancelReminder \/ FireReminder \/ Respond \/ Tick

StoreSpec == StoreInit /\ [][StoreNext]_vars

\* -------------------------------------------------------------------- chat
\* ChatRequest.message has max_length=1000; the model's strings are short, so
\* the limit is scaled down with them.
MaxLength == 3

\* The message of a chat request: absent, or a string over a blank and a
\* letter, up to one character longer than the limit.
Chars == {" ", "a"}
Strings == UNION {[1..n -> Chars] : n \in 0..(MaxLength + 1)}
ChatBodies == {None} \cup {Some(m) : m \in Strings}

\* str.strip()
RECURSIVE lstrip(_)
lstrip(v) == IF v # <<>> /\ Head(v) = " " THEN lstrip(Tail(v)) ELSE v

RECURSIVE rstrip(_)
rstrip(v) ==
    IF v # <<>> /\ v[Len(v)] = " " THEN rstrip(SubSeq(v, 1, Len(v) - 1)) ELSE v

strip(v) == rstrip(lstrip(v))

\* A validator that returns the message as it came.
message_as_sent(v) == IF strip(v) = <<>> THEN None ELSE Some(v)

\* @validator('message'): ValueError (None here) for a blank message,
\* otherwise the stripped message.
message_not_empty(v) == IF v = <<>> \/ strip(v) = <<>> THEN None ELSE Some(strip(v))

\* ChatRequest(**body): None stands for the ValidationError FastAPI answers
\* with 422.  The field constraints are checked on the message as sent, then
\* the validator runs.
ChatRequest(message) ==
    IF message = None THEN None
    ELSE IF Len(Val(message)) < 1 \/ Len(Val(message)) > MaxLength THEN None
    ELSE message_not_empty(Val(message))

\* POST /api/chat by an authenticated user: the validated message goes to
\* TodoAgent.process_message as user_message.
Chat ==
    /\ last = Idle
    /\ \E current_user \in Users, message \in ChatBodies :
          LET request == ChatRequest(message)
          IN  last' = [op |-> "chat", user |-> current_user, message |-> message,
                       status |-> IF request = None THEN 422 ELSE 200,
                       user_message |-> request, events |-> <<>>]
    /\ UNCHANGED <<tasks, next_id, now, other_tables>>

ChatNext == Chat \/ Respond \/ Tick

ChatSpec == Init /\ [][ChatNext]_vars

\* ------------------------------------------ task requests with their cookie
\* Rows the tasks table receives while callers are authenticated per request.
MaxOwned == 2

\* The cookies task requests arrive with: none, or a token without exp that
\* names a user id, signed or not.
SessionCookies ==
    {c \in Cookies : c = None \/ (Val(c).exp = None /\ Val(c).user_id # None)}

\* The bodies the requests carry: a create with the title "a" and the
\* defaults, an update of the title to "b" or of nothing.
OwnedTaskCreates == {b \in PlainTaskCreates : b.title = Some("a")}
OwnedTaskUpdates == {b \in TaskUpdates : b.set \subseteq {"title"} /\ b.title # Some("a")}

\* current_user: User = Depends(get_current_user): the dependency runs before
\* the handler; when it raises 401 the handler is not called.
GuardedServed(op, task_id, access_token, task_data, auth, r) ==
    /\ last = Idle
    /\ tasks' = r.db
    /\ last' = [op |-> op, task_id |-> task_id, access_token |-> access_token,
                user |-> IF auth.status = 401 THEN None ELSE Some(Val(auth.user).id),
                task_data |-> task_data, clock |-> now, before |-> tasks,
                status |-> r.status, body |-> r.body, events |-> r.events]
    /\ UNCHANGED <<now, other_tables>>

GuardedCreate ==
    /\ next_id <= MaxOwned
    /\ \E access_token \in SessionCookies, task_data \in OwnedTaskCreates :
          LET auth == get_current_user(users, access_token, now)
          IN  /\ GuardedServed("create_task", next_id, access_token, task_data, auth,
                    IF auth.status = 401 THEN HTTPException(tasks, 401)
                    ELSE create_task(tasks, next_id, Val(auth.user).id, task_data,
                                     now, AllDelivered))
              \* the sequence moves only when a row is inserted
              /\ next_id' = IF tasks' = tasks THEN next_id ELSE next_id + 1

GuardedUpdate ==
    \E task_id \in 1..MaxOwned, access_token \in SessionCookies,
       task_data \in OwnedTaskUpdates :
       LET auth == get_current_user(users, access_token, now)
       IN  /\ GuardedServed("update_task", task_id, access_token, task_data, auth,
                 IF auth.status = 401 THEN HTTPException(tasks, 401)
                 ELSE update_task(tasks, task_id, Val(auth.user).id, task_data,
                                  now, AllDelivered))
           /\ UNCHANGED next_id

GuardedToggle ==
    \E task_id \in 1..MaxOwned, access_token \in SessionCookies :
       LET auth == get_current_user(users, access_token, now)
       IN  /\ GuardedServed("toggle_task", task_id, access_token, None, auth,
                 IF auth.status = 401 THEN HTTPException(tasks, 401)
                 ELSE toggle_task(tasks, task_id, Val(auth.user).id, now,
                                  AllDelivered))
           /\ UNCHANGED next_id

GuardedDelete ==
    \E task_id \in 1..MaxOwned, access_token \in SessionCookies :
       LET auth == get_current_user(users, access_token, now)
       IN  /\ GuardedServed("delete_task", task_id, access_token, None, auth,
                 IF auth.status = 401 THEN HTTPException(tasks, 401)
                 ELSE delete_task(tasks, task_id, Val(auth.user).id, now,
                                  AllDelivered))
           /\ UNCHANGED next_id

GuardedNext ==
    GuardedCreate \/ GuardedUpdate \/ GuardedToggle \/ GuardedDelete \/ Respond \/ Tick

GuardedSpec == Init /\ [][GuardedNext]_vars

\* ------------------------------------------------ the reminder event stream
\* Rows the tasks table receives while the reminder topic is followed.
MaxMirrored == 2

\* A stored reminder_config of {"channels": []}.
NoChannelsConfig == [keys |-> {"channels"}, channels |-> <<>>]

\* Bodies that differ in what they say about the reminder only.
ReminderTaskCreates ==
    [title : {Some("a")}, description : {Some("")}, priority : {Some("medium")},
     reminder_time : RequestTimes, reminder_config : {None, Some(NoChannelsConfig)}]
ReminderTaskUpdates == {b \in TaskUpdates : b.set \subseteq {"reminder_time"}}

\* await publisher.publish_reminder_event(event), for each event of a request
\* in the order of the calls: a delivered reminder event becomes the latest
\* one of its task; task events go to another topic.
RECURSIVE publish_reminder_event(_, _)
publish_reminder_event(stream, events) ==
    IF events = <<>> THEN stream
    ELSE LET event == Head(events)
             received ==
                 IF event.published
                    /\ event.type \in {"reminder.scheduled", "reminder.cancelled"}
                 THEN [id \in DOMAIN stream \cup {event.task_id} |->
                          IF id = event.task_id THEN event ELSE stream[id]]
                 ELSE stream
         IN  publish_reminder_event(received, Tail(events))

\* One request at a time, every publish call delivering.
MirrorServed(op, task_id, current_user, task_data, r) ==
    /\ last = Idle
    /\ tasks' = r.db
    /\ reminder_stream' = publish_reminder_event(reminder_stream, r.events)
    /\ last' = [op |-> op, task_id |-> task_id, user |-> current_user,
                task_data |-> task_data, clock |-> now, pub |-> AllDelivered,
                before |-> tasks, status |-> r.status, body |-> r.body,
                events |-> r.events]
    /\ UNCHANGED <<now, users, next_user_id, recurrence_patterns, reminders,
                   schema, sessions>>

MirrorCreate ==
    /\ next_id <= MaxMirrored
    /\ \E current_user \in Users, task_data \in ReminderTaskCreates :
          MirrorServed("create_task", next_id, current_user, task_data,
                       create_task(tasks, next_id, current_user, task_data, now,
                                   AllDelivered))
    /\ next_id' = next_id + 1

MirrorUpdate ==
    \E task_id \in 1..MaxMirrored, current_user \in Users,
       task_data \in ReminderTaskUpdates :
       /\ MirrorServed("update_task", task_id, current_user, task_data,
                       update_task(tasks, task_id, current_user, task_data, now,
                                   AllDelivered))
       /\ UNCHANGED next_id

MirrorToggle ==
    \E task_id \in 1..MaxMirrored, current_user \in Users :
       /\ MirrorServed("toggle_task", task_id, current_user, None,
                       toggle_task(tasks, task_id, current_user, now, AllDelivered))
       /\ UNCHANGED next_id

MirrorDelete ==
    \E task_id \in 1..MaxMirrored, current_user \in Users :
       /\ MirrorServed("delete_task", task_id, current_user, None,
                       delete_task(tasks, task_id, current_user, now, AllDelivered))
       /\ UNCHANGED next_id

StreamNext ==
    MirrorCreate \/ MirrorUpdate \/ MirrorToggle \/ MirrorDelete \/ Respond \/ Tick

StreamSpec == Init /\ [][StreamNext]_vars

\* ------------------------------------------------- requests side by side
\* Requests in progress at once, each in its own worker with its own session.
MaxWorkers == 2
Workers == 1..MaxWorkers

\* PUT bodies that supply reminder_time and nothing else.
ReminderTimeUpdates == {b \in ReminderTaskUpdates : b.set = {"reminder_time"}}

\* The task the requests meet: created by user 1 with or without a reminder,
\* and the event its creation left on the reminder topic.
SharedTaskCreates ==
    {b \in ReminderTaskCreates :
        /\ b.reminder_config = None
        /\ b.reminder_time \in {None, Some(DateTime(1, FALSE))}}

\* task = session.get(Task, task_id) and the two checks after it: what the
\* session holds when the handler goes on, or the status it raises.
Loaded(op, task_id, current_user, task_data) ==
    LET code == IF task_id \notin DOMAIN tasks THEN 404
                ELSE IF NotOwner(tasks[task_id], current_user) THEN 403
                ELSE 0
        task == IF code = 0 THEN Some(tasks[task_id]) ELSE None
    IN  [op |-> op, task_id |-> task_id, user |-> current_user,
         task_data |-> task_data, pc |-> IF code = 0 THEN "commit" ELSE "done",
         status |-> code, old |-> task, task |-> task, overwrote |-> None,
         events |-> <<>>]

Begin(w, session) ==
    /\ w \notin DOMAIN sessions
    /\ sessions' = [v \in DOMAIN sessions \cup {w} |->
                        IF v = w THEN session ELSE sessions[v]]
    /\ UNCHANGED <<tasks, next_id, now, last, users, next_user_id,
                   recurrence_patterns, reminders, schema, reminder_stream>>

\* The keys the diff loop of update_task puts into changes, computed against
\* the row as this session loaded it.
Changed(session) ==
    {key \in session.task_data.set :
        Differs(Val(session.old)[key], session.task_data[key])}

\* session.commit(): UPDATE tasks SET <the attributes this session assigned>
\* WHERE id = task_id, under READ COMMITTED: the other columns keep what the
\* row holds now, the assigned ones take this session's values.
Committed(w, assigned, columns) ==
    LET session == sessions[w]
        stored == Refresh(assigned)
    IN  /\ tasks' = [tasks EXCEPT ![session.task_id] =
                        [f \in DOMAIN @ |-> IF f \in columns THEN stored[f] ELSE @[f]]]
        /\ sessions' = [sessions EXCEPT ![w].pc = "refresh",
                                        ![w].task = Some(assigned),
                                        ![w].overwrote = Some(tasks[session.task_id])]
        /\ UNCHANGED <<next_id, now, last, users, next_user_id,
                       recurrence_patterns, reminders, schema, reminder_stream>>

\* session.refresh(task): the row as the database holds it at that moment.
Refreshed(w) ==
    /\ sessions[w].pc = "refresh"
    /\ sessions' = [sessions EXCEPT ![w].pc = "publish_task",
                                    ![w].task = Some(tasks[sessions[w].task_id])]
    /\ UNCHANGED <<tasks, next_id, now, last, users, next_user_id,
                   recurrence_patterns, reminders, schema, reminder_stream>>

\* One publish call that delivers; `events` is empty when the handler skips it.
Published(w, events, pc) ==
    /\ sessions' = [sessions EXCEPT
                       ![w].pc = pc,
                       ![w].status = IF pc = "done" THEN 200 ELSE @,
                       ![w].events = @ \o [i \in DOMAIN events |->
                                              [events[i] EXCEPT !.published = TRUE]]]
    /\ reminder_stream' =
           publish_reminder_event(reminder_stream,
               [i \in DOMAIN events |-> [events[i] EXCEPT !.published = TRUE]])
    /\ UNCHANGED <<tasks, next_id, now, last, users, next_user_id,
                   recurrence_patterns, reminders, schema>>

ToggleGet ==
    \E w \in Workers, task_id \in 1..MaxTasks, current_user \in Users :
        Begin(w, Loaded("toggle_task", task_id, current_user, None))

ToggleCommit ==
    \E w \in DOMAIN sessions :
        /\ sessions[w].op = "toggle_task"
        /\ sessions[w].pc = "commit"
        /\ LET old == Val(sessions[w].old)
           IN  Committed(w, [old EXCEPT !.is_complete = ~old.is_complete,
                                        !.updated_at = now],
                         {"is_complete", "updated_at"})

ToggleRefresh ==
    \E w \in DOMAIN sessions : sessions[w].op = "toggle_task" /\ Refreshed(w)

TogglePublish ==
    \E w \in DOMAIN sessions :
        /\ sessions[w].op = "toggle_task"
        /\ sessions[w].pc = "publish_task"
        /\ LET task == Val(sessions[w].task)
               previous_is_complete == Val(sessions[w].old).is_complete
           IN  Published(w,
                   <<TaskUpdatedEvent(task,
                        [k \in {"is_complete"} |-> task.is_complete],
                        [k \in {"is_complete"} |-> previous_is_complete])>>,
                   "done")

UpdateGet ==
    \E w \in Workers, task_id \in 1..MaxTasks, current_user \in Users,
       task_data \in ReminderTimeUpdates :
        Begin(w, Loaded("update_task", task_id, current_user, task_data))

UpdateCommit ==
    \E w \in DOMAIN sessions :
        /\ sessions[w].op = "update_task"
        /\ sessions[w].pc = "commit"
        /\ LET session == sessions[w]
               old == Val(session.old)
               changed == Changed(session)
               changes == [key \in changed |-> session.task_data[key]]
               assigned == [f \in DOMAIN old |->
                               IF f \in changed THEN session.task_data[f]
                               ELSE IF f = "updated_at" THEN UpdatedAt(old, changes, now)
                               ELSE old[f]]
           IN  Committed(w, assigned, changed \cup {"updated_at"})

UpdateRefresh ==
    \E w \in DOMAIN sessions : sessions[w].op = "update_task" /\ Refreshed(w)

UpdatePublishTask ==
    \E w \in DOMAIN sessions :
        /\ sessions[w].op = "update_task"
        /\ sessions[w].pc = "publish_task"
        /\ LET session == sessions[w]
               changed == Changed(session)
               changes == [key \in changed |-> session.task_data[key]]
               previous_values == [key \in changed |-> Val(session.old)[key]]
           IN  Published(w,
                   IF changed # {}
                   THEN <<TaskUpdatedEvent(Val(session.task), changes, previous_values)>>
                   ELSE <<>>,
                   "publish_reminder")

UpdatePublishReminder ==
    \E w \in DOMAIN sessions :
        /\ sessions[w].op = "update_task"
        /\ sessions[w].pc = "publish_reminder"
        /\ LET session == sessions[w]
               task == Val(session.task)
               previous_reminder_time == Val(session.old).reminder_time
               changes == [key \in Changed(session) |-> session.task_data[key]]
           IN  Published(w,
                   IF ~ReminderTimeChanged(session.task_data, changes) THEN <<>>
                   ELSE IF ReminderRemoved(previous_reminder_time, task)
                        THEN <<ReminderCancelledEvent(task, "reminder_removed", now)>>
                   ELSE IF ReminderAddedOrChanged(previous_reminder_time, task)
                        THEN <<TaskReminderScheduledEvent(task)>>
                   ELSE <<>>,
                   "done")

ConcurrentInit ==
    /\ \E task_data \in SharedTaskCreates :
          LET r == create_task(<<>>, 1, 1, task_data, 0, AllDelivered)
          IN  /\ tasks = r.db
              /\ reminder_stream = publish_reminder_event(<<>>, r.events)
    /\ next_id = 2
    /\ now = 0
    /\ last = Idle
    /\ users = RegisteredUsers
    /\ next_user_id = Cardinality(Users) + 1
    /\ recurrence_patterns = <<>>
    /\ reminders = <<>>
    /\ schema = "alembic"
    /\ sessions = <<>>

ConcurrentNext ==
    \/ ToggleGet \/ ToggleCommit \/ ToggleRefresh \/ TogglePublish
    \/ UpdateGet \/ UpdateCommit \/ UpdateRefresh
    \/ UpdatePublishTask \/ UpdatePublishReminder
    \/ Tick

ConcurrentSpec == ConcurrentInit /\ [][ConcurrentNext]_vars

\* ------------------------------------------------------------------ claims
\* The row the answered request addressed, before and after it.
Before == last.before[last.task_id]
After == tasks[last.task_id]
Existed == last.task_id \in DOMAIN last.before

\* The publish attempts of the answered request that carry an event of `type`.
Attempts(type) == {i \in 1..Len(last.events) : last.events[i].type = type}

Updated == last.op = "update_task" /\ last.status = 200
Created == last.op = "create_task" /\ last.status = 201
Deleted == last.op = "delete_task" /\ last.status = 204

\* The handler of the answered request, run again on the same database and
\* the same request with other publish outcomes.
Handle(req, pub) ==
    CASE req.op = "create_task" ->
            create_task(req.before, req.task_id, req.user, req.task_data, req.clock, pub)
      [] req.op = "update_task" ->
            update_task(req.before, req.task_id, req.user, req.task_data, req.clock, pub)
      [] req.op = "toggle_task" ->
            toggle_task(req.before, req.task_id, req.user, req.clock, pub)
      [] req.op = "delete_task" ->
            delete_task(req.before, req.task_id, req.user, req.clock, pub)

\* C1: update_task, toggle_task and delete_task answer 404 when no task has the
\* given id, 403 when the task exists and belongs to another user, and succeed
\* only when the task exists and belongs to the caller.
C1_OwnershipGate ==
    last.op \in {"update_task", "toggle_task", "delete_task"} =>
        /\ ~Existed => last.status = 404
        /\ (Existed /\ Before.user_id # last.user) => last.status = 403
        /\ last.status \in {200, 204} => (Existed /\ Before.user_id = last.user)

C1_Witness ==
    /\ last.op = "delete_task"
    /\ Existed
    /\ Before.user_id # last.user
    /\ last.status = 403

\* Every column of a task row but updated_at, which each update rewrites.
TrackedColumns ==
    {"id", "user_id", "title", "description", "priority", "is_complete",
     "created_at", "reminder_time", "reminder_config"}

\* The value the database holds for what a request supplied.
AsStored(column, value) ==
    IF column = "reminder_time" THEN StoreDateTime(value) ELSE value

\* C2: for every successful update_task the TaskUpdated event's changes and
\* previous_values have the same keys, and those are exactly the columns whose
\* stored value after the update differs from the one before it (updated_at
\* aside); changes holds the new value and previous_values the old one.
C2_ChangesAreTheDifference ==
    Updated =>
        LET differing == {c \in TrackedColumns : Before[c] # After[c]}
        IN  /\ differing # {} => Attempts("task.updated") # {}
            /\ \A i \in Attempts("task.updated") :
                  LET e == last.events[i]
                  IN  /\ DOMAIN e.changes = differing
                      /\ DOMAIN e.previous_values = differing
                      /\ \A c \in differing :
                            /\ AsStored(c, e.changes[c]) = After[c]
                            /\ e.previous_values[c] = Before[c]

\* The request of C3: an update all of whose supplied fields equal the stored values.
NothingDiffers == \A f \in last.task_data.set : last.task_data[f] = Before[f]

\* C3 as claimed: an update whose supplied fields all equal the stored values
\* writes nothing: the row, updated_at included, is the same afterwards.
C3_NoChangeWritesNothing ==
    (Updated /\ NothingDiffers) => tasks = last.before

\* C3 as amended: such an update leaves every column but updated_at as it was,
\* and sets updated_at to the time of the request.
C3_NoChangeRewritesUpdatedAt ==
    (Updated /\ NothingDiffers) =>
        tasks = [last.before EXCEPT ![last.task_id] =
                    [Before EXCEPT !.updated_at = last.clock]]

C3_Witness ==
    /\ Updated
    /\ NothingDiffers
    /\ last.task_data.set # {}
    /\ last.clock > Before.updated_at
    /\ After.updated_at = last.clock

\* C4: an update that changes reminder_time from a value to null attempts
\* exactly one ReminderCancelled, with reason "reminder_removed", and no
\* ReminderScheduled.
C4_ClearingCancels ==
    (Updated /\ Before.reminder_time # None /\ After.reminder_time = None) =>
        /\ Cardinality(Attempts("reminder.cancelled")) = 1
        /\ \A i \in Attempts("reminder.cancelled") :
              last.events[i].reason = "reminder_removed"
        /\ Attempts("reminder.scheduled") = {}

C4_Witness ==
    /\ Updated
    /\ Before.reminder_time # None
    /\ After.reminder_time = None
    /\ Attempts("reminder.cancelled") # {}

\* C5: an update that changes reminder_time from null to a value, or from one
\* value to a different one, attempts exactly one ReminderScheduled, whose
\* scheduled_time is the new reminder_time, and no ReminderCancelled.
C5_SettingSchedules ==
    (Updated /\ After.reminder_time # None /\ Before.reminder_time # After.reminder_time) =>
        /\ Cardinality(Attempts("reminder.scheduled")) = 1
        /\ \A i \in Attempts("reminder.scheduled") :
              last.events[i].scheduled_time = After.reminder_time
        /\ Attempts("reminder.cancelled") = {}

C5_Witness ==
    /\ Updated
    /\ Before.reminder_time # None
    /\ After.reminder_time # None
    /\ Before.reminder_time # After.reminder_time
    /\ Attempts("reminder.scheduled") # {}

\* C6: a successful delete of a task with a reminder_time attempts exactly one
\* ReminderCancelled, with reason "task_deleted", whether the TaskDeleted
\* publish succeeded or raised.
C6_DeleteCancels ==
    (Deleted /\ Before.reminder_time # None) =>
        /\ Cardinality(Attempts("reminder.cancelled")) = 1
        /\ \A i \in Attempts("reminder.cancelled") :
              last.events[i].reason = "task_deleted"

C6_Witness ==
    /\ Deleted
    /\ Before.reminder_time # None
    /\ last.events[1].type = "task.deleted"
    /\ ~last.events[1].published
    /\ Attempts("reminder.cancelled") = {2}

\* C7: the status, the response body and the stored tasks of a create, update,
\* toggle or delete request are the same whatever publish attempts succeed or
\* raise.
C7_PublishOutcomeIrrelevant ==
    last.op # "none" =>
        \A pub \in PublishOutcomes :
            LET r == Handle(last, pub)
            IN  /\ r.status = last.status
                /\ r.body = last.body
                /\ r.db = tasks

C7_Witness ==
    /\ last.op = "create_task"
    /\ last.status = 201
    /\ Len(last.events) = MaxPublishCalls
    /\ \A i \in 1..MaxPublishCalls : ~last.events[i].published
    /\ last.task_id \in DOMAIN tasks

\* The channels C8 and C10 expect for a task's reminder_config.
ConfiguredChannels(reminder_config) ==
    IF reminder_config # None /\ "channels" \in Val(reminder_config).keys
    THEN Val(reminder_config).channels
    ELSE <<"email">>

SchedulesStoredReminder ==
    \E i \in Attempts("reminder.scheduled") :
        /\ last.events[i].scheduled_time = After.reminder_time
        /\ last.events[i].notification_channels = ConfiguredChannels(After.reminder_config)

C9_OnlyReminderTimeDrives ==
    (/\ Updated
     /\ \/ "reminder_time" \notin last.task_data.set
        \/ last.task_data.reminder_time = Before.reminder_time) =>
        /\ Attempts("reminder.scheduled") = {}
        /\ Attempts("reminder.cancelled") = {}

C9_Witness ==
    /\ Updated
    /\ last.task_data.set = {"reminder_time", "reminder_config"}
    /\ last.task_data.reminder_time = Before.reminder_time
    /\ Before.reminder_time # None
    /\ Before.reminder_config # After.reminder_config
    /\ Attempts("task.updated") # {}

\* C10: the notification_channels of every attempted ReminderScheduled are
\* reminder_config["channels"] when the task's reminder_config has that key,
\* and ["email"] when reminder_config is null or lacks the key.
C10_ChannelsFromConfig ==
    (Created \/ Updated) =>
        \A i \in Attempts("reminder.scheduled") :
            /\ After.reminder_config = None =>
                  last.events[i].notification_channels = <<"email">>
            /\ (After.reminder_config # None
                /\ "channels" \notin Val(After.reminder_config).keys) =>
                  last.events[i].notification_channels = <<"email">>
            /\ (After.reminder_config # None
                /\ "channels" \in Val(After.reminder_config).keys) =>
                  last.events[i].notification_channels = Val(After.reminder_config).channels

C10_Witness ==
    /\ Created
    /\ After.reminder_time # None
    /\ After.reminder_config = None
    /\ Attempts("reminder.scheduled") = {2}
    /\ last.events[2].notification_channels = <<"email">>

\* The commit of the answered request fails: an update by the owner that
\* supplies null for a column the table declares NOT NULL.
CommitRefused ==
    /\ last.op = "update_task"
    /\ Existed
    /\ Before.user_id = last.user
    /\ \E f \in last.task_data.set \cap {"title", "description", "priority"} :
          last.task_data[f] = None

C12_AtMostOnce ==
    /\ Created => Cardinality(Attempts("task.created")) = 1
    /\ Deleted => Cardinality(Attempts("task.deleted")) = 1
    /\ last.op # "none" =>
          \A i, j \in 1..Len(last.events) :
              last.events[i].type = last.events[j].type => i = j

C12_Witness ==
    /\ Deleted
    /\ Attempts("task.deleted") = {1}
    /\ ~last.events[1].published
    /\ Len(last.events) = 1

\* C13: get_tasks answers with the caller's tasks, each once and as stored,
\* none of another user and none of the caller's left out, with created_at
\* never increasing along the list.
C13_ListIsOwnersNewestFirst ==
    last.op = "get_tasks" =>
        /\ last.status = 200
        /\ {last.body[k].id : k \in DOMAIN last.body} =
              {i \in DOMAIN tasks : tasks[i].user_id = last.user}
        /\ \A k \in DOMAIN last.body : last.body[k] = tasks[last.body[k].id]
        /\ \A i, j \in DOMAIN last.body :
              /\ last.body[i].id = last.body[j].id => i = j
              /\ i < j => last.body[i].created_at >= last.body[j].created_at

C13_Witness ==
    /\ last.op = "get_tasks"
    /\ Len(last.body) = 2
    /\ last.body[1].id > last.body[2].id
    /\ last.body[1].created_at > last.body[2].created_at
    /\ \E i \in DOMAIN tasks : tasks[i].user_id # last.user

\* What the cookie of the answered get_current_user request holds.
Presented == last.request.access_token
Expired(token) == token.exp # None /\ Val(token.exp) < last.clock
NamesUser(token) == token.user_id # None /\ Val(token.user_id) \in DOMAIN users

\* C14: get_current_user answers 401 when the cookie is missing, when its token
\* does not decode or is expired, when the payload has no user_id, and when the
\* user_id names no user; it answers with a user only for a token that decodes
\* to the id of an existing user, and then with that user's row.
C14_AuthenticatedOrRejected ==
    last.op = "get_current_user" =>
        /\ last.status \in {200, 401}
        /\ Presented = None => last.status = 401
        /\ Presented # None =>
              /\ ~Val(Presented).signed => last.status = 401
              /\ Expired(Val(Presented)) => last.status = 401
              /\ Val(Presented).user_id = None => last.status = 401
              /\ ~NamesUser(Val(Presented)) => last.status = 401
        /\ last.status = 401 => last.body = None
        /\ last.status = 200 =>
              /\ Presented # None
              /\ Val(Presented).signed
              /\ ~Expired(Val(Presented))
              /\ NamesUser(Val(Presented))
              /\ last.body = Some(users[Val(Val(Presented).user_id)])

C14_Witness ==
    /\ last.op = "get_current_user"
    /\ Presented # None
    /\ Val(Presented).signed
    /\ Expired(Val(Presented))
    /\ NamesUser(Val(Presented))
    /\ last.status = 401

\* The answered get_dev_or_current_user request, given to get_current_user.
SameAsGetCurrentUser ==
    LET r == get_current_user(last.users_before, last.request.access_token, last.clock)
    IN  /\ last.status = r.status
        /\ last.body = r.user
        /\ users = last.users_before

\* C15 as claimed: with ENVIRONMENT unset or holding any value other than
\* "development", get_dev_or_current_user answers as get_current_user does and
\* leaves the users table alone.
C15_NoBypassUnlessNamedDevelopment ==
    (last.op = "get_dev_or_current_user"
     /\ last.request.environment # Some("development")) => SameAsGetCurrentUser

\* C15 as amended: the same, for ENVIRONMENT unset or holding a value that is
\* not "development" in any letter case.
C15_NoBypassOutsideDevelopment ==
    (last.op = "get_dev_or_current_user"
     /\ \/ last.request.environment = None
        \/ lower(Val(last.request.environment)) # "development") => SameAsGetCurrentUser

C15_Witness ==
    /\ last.op = "get_dev_or_current_user"
    /\ last.request.environment = Some("staging")
    /\ last.request.access_token = None
    /\ last.users_before = <<>>
    /\ last.status = 401
    /\ users = <<>>

\* C20: registering an email that, lower-cased, is the email of an existing
\* user is answered 409, with the users table as it was and no cookie.
C20_DuplicateEmailConflicts ==
    (last.op = "register"
     /\ \E id \in DOMAIN last.users_before :
           last.users_before[id].email = lower(last.request.email)) =>
        /\ last.status = 409
        /\ users = last.users_before
        /\ last.cookie = None
        /\ last.body = None

C20_Witness ==
    /\ last.op = "register"
    /\ last.request.email = "A@X.io"
    /\ \E id \in DOMAIN last.users_before : last.users_before[id].email = "a@x.io"
    /\ last.status = 409
    /\ users = last.users_before

\* C16: a write of a RecurrencePattern row with both end_date and
\* max_occurrences set is rejected, and every stored RecurrencePattern has at
\* most one of the two.
C16_OneEndCondition ==
    /\ (last.op = "write_pattern"
        /\ last.row.end_date # None /\ last.row.max_occurrences # None) => ~last.accepted
    /\ \A id \in DOMAIN recurrence_patterns :
          \/ recurrence_patterns[id].end_date = None
          \/ recurrence_patterns[id].max_occurrences = None

\* C17: a write of a RecurrencePattern row with interval 0 or negative is
\* rejected, and every stored RecurrencePattern has interval > 0.
C17_IntervalPositive ==
    /\ (last.op = "write_pattern" /\ last.row.interval <= 0) => ~last.accepted
    /\ \A id \in DOMAIN recurrence_patterns : recurrence_patterns[id].interval > 0

\* C18: every Reminder row has status pending, fired or cancelled, and has
\* fired_at set exactly when its status is fired.
C18_FiredAtIffFired ==
    \A id \in DOMAIN reminders :
        /\ reminders[id].status \in {"pending", "fired", "cancelled"}
        /\ reminders[id].fired_at # None <=> reminders[id].status = "fired"

C18_Witness ==
    \E i, j \in DOMAIN reminders :
        /\ reminders[i].status = "fired"
        /\ reminders[i].fired_at = Some(now)
        /\ reminders[j].status = "cancelled"
        /\ last.op = "fire_reminder"
        /\ last.id = i

\* C19: the status of a Reminder changes only from pending, and then to fired
\* or to cancelled; a fired or cancelled reminder keeps its status, so a
\* reminder is fired at most once.
C19_TerminalStatuses ==
    [][\A id \in DOMAIN reminders :
          /\ id \in DOMAIN reminders'
          /\ reminders'[id].status # reminders[id].status =>
                /\ reminders[id].status = "pending"
                /\ reminders'[id].status \in {"fired", "cancelled"}]_vars

C19_Witness ==
    /\ last.op = "cancel_reminder"
    /\ last.before[last.id].status = "fired"
    /\ ~last.applied
    /\ reminders[last.id].status = "fired"

\* C21: a task write that violates a constraint of the table (an update that
\* sets title, description or priority to null) is answered 422 or 409, with
\* the stored task unchanged and no event attempted.
C21_ConstraintViolationIsConflict ==
    CommitRefused =>
        /\ last.status \in {409, 422}
        /\ tasks = last.before
        /\ last.events = <<>>

Toggled == last.op = "toggle_task" /\ last.status = 200

\* C23: a successful toggle_task negates is_complete, sets updated_at and
\* leaves the other columns and the other rows alone; it attempts one
\* TaskUpdated, whose changes and previous_values hold is_complete only, the
\* new and the old value, and no reminder event; a second toggle of the task
\* gives back the is_complete the first one found.
C23_ToggleNegates ==
    Toggled =>
        /\ After.is_complete = ~Before.is_complete
        /\ tasks = [last.before EXCEPT ![last.task_id] =
                       [Before EXCEPT !.is_complete = ~Before.is_complete,
                                      !.updated_at = last.clock]]
        /\ Len(last.events) = 1
        /\ last.events[1].type = "task.updated"
        /\ last.events[1].changes = [k \in {"is_complete"} |-> After.is_complete]
        /\ last.events[1].previous_values = [k \in {"is_complete"} |-> Before.is_complete]
        /\ \A clock \in 0..MaxClock, pub \in PublishOutcomes :
              LET again == toggle_task(tasks, last.task_id, last.user, clock, pub)
              IN  /\ again.status = 200
                  /\ again.db[last.task_id].is_complete = Before.is_complete

C23_Witness ==
    /\ Toggled
    /\ Before.is_complete
    /\ ~After.is_complete
    /\ Before.reminder_time # None
    /\ After.updated_at > Before.updated_at

\* C24: update_task attempts a TaskUpdated only when a supplied field is not
\* equal to the stored value, and a successful update none of whose supplied
\* fields differs attempts no event at all.
C24_NoChangeNoEvent ==
    Updated =>
        /\ Attempts("task.updated") # {} => ~NothingDiffers
        /\ NothingDiffers => last.events = <<>>

C24_Witness ==
    /\ Updated
    /\ NothingDiffers
    /\ last.task_data.set = {"title", "reminder_time"}
    /\ last.task_data.reminder_time # None
    /\ last.events = <<>>

\* C25: a create, update, toggle or delete request answered 401, 403 or 404
\* leaves the tasks table as it was and attempts no event.
C25_RejectedRequestWritesNothing ==
    (last.op \in {"create_task", "update_task", "toggle_task", "delete_task"}
     /\ last.status \in {401, 403, 404}) =>
        /\ tasks = last.before
        /\ last.events = <<>>

C25_Witness ==
    /\ last.op = "delete_task"
    /\ last.status = 401
    /\ last.access_token # None
    /\ Existed
    /\ tasks = last.before

\* C26: a task appears only through a successful create_task, under the next
\* id, owned by the user the cookie's token names and not complete; a task
\* keeps its id and its user_id as long as it exists; and a step that changes
\* or removes a task answers a request of the task's owner.
C26_OwnershipFixed ==
    [][/\ \A id \in DOMAIN tasks' \ DOMAIN tasks :
             /\ last'.op = "create_task" /\ last'.status = 201
             /\ id = last'.task_id
             /\ tasks'[id].id = id
             /\ tasks'[id].user_id = Val(Val(last'.access_token).user_id)
             /\ ~tasks'[id].is_complete
       /\ \A id \in DOMAIN tasks \cap DOMAIN tasks' :
             /\ tasks'[id].id = tasks[id].id
             /\ tasks'[id].user_id = tasks[id].user_id
       /\ \A id \in DOMAIN tasks :
             (id \notin DOMAIN tasks' \/ tasks'[id] # tasks[id]) =>
                 /\ last'.access_token # None
                 /\ Val(last'.access_token).user_id = Some(tasks[id].user_id)]_vars

C26_Witness ==
    /\ last.op = "update_task"
    /\ last.status = 403
    /\ \E i, j \in DOMAIN tasks : tasks[i].user_id # tasks[j].user_id
    /\ tasks[last.task_id].user_id # Val(last.user)
    /\ tasks = last.before

\* C27: with requests served one at a time and every publish delivered, a
\* task that exists with a reminder_time has a ReminderScheduled of that time
\* as the latest reminder event of its id; any other id has a
\* ReminderCancelled as its latest reminder event, or none.
C27_StreamMirrorsTasks ==
    \A id \in 1..MaxMirrored :
        IF id \in DOMAIN tasks /\ tasks[id].reminder_time # None
        THEN /\ id \in DOMAIN reminder_stream
             /\ reminder_stream[id].type = "reminder.scheduled"
             /\ reminder_stream[id].scheduled_time = tasks[id].reminder_time
        ELSE \/ id \notin DOMAIN reminder_stream
             \/ reminder_stream[id].type = "reminder.cancelled"

C27_Witness ==
    /\ last.op = "update_task"
    /\ last.status = 200
    /\ last.before[last.task_id].reminder_time # None
    /\ tasks[last.task_id].reminder_time = None
    /\ reminder_stream[last.task_id].type = "reminder.cancelled"
    /\ \E id \in DOMAIN tasks \cap DOMAIN reminder_stream :
          /\ id # last.task_id
          /\ reminder_stream[id].type = "reminder.scheduled"

\* C28: every ReminderScheduled event a request attempts carries at least one
\* notification channel, whatever reminder_config the task stores.
C28_ChannelsNonEmpty ==
    \A i \in DOMAIN last.events :
        last.events[i].type = "reminder.scheduled" =>
            last.events[i].notification_channels # <<>>

\* The requests of a kind that have returned 200, once none is in progress.
AllReturned == \A w \in DOMAIN sessions : sessions[w].pc = "done"
Returned(op) ==
    {w \in DOMAIN sessions : sessions[w].op = op /\ sessions[w].status = 200}

\* C29: when n toggle_task requests on the task have returned 200, however
\* their steps interleaved, is_complete is its initial value (false) negated
\* n times, and each TaskUpdated event names as previous is_complete the
\* value its request's commit overwrote.
C29_TogglesCompose ==
    AllReturned =>
        /\ tasks[1].is_complete = (Cardinality(Returned("toggle_task")) % 2 = 1)
        /\ \A w \in Returned("toggle_task") :
              sessions[w].events[1].previous_values.is_complete
                  = Val(sessions[w].overwrote).is_complete

\* C30: when two update_task requests that changed reminder_time of the task
\* ran side by side and have returned, the reminder event published last for
\* the task agrees with the stored reminder_time: a ReminderScheduled of that
\* time if it is set, a ReminderCancelled if it is null.
C30_LastEventAgrees ==
    (/\ AllReturned
     /\ Returned("update_task") = Workers
     /\ \A w \in Workers : "reminder_time" \in Changed(sessions[w])) =>
        /\ 1 \in DOMAIN reminder_stream
        /\ IF tasks[1].reminder_time # None
           THEN /\ reminder_stream[1].type = "reminder.scheduled"
                /\ reminder_stream[1].scheduled_time = tasks[1].reminder_time
           ELSE reminder_stream[1].type = "reminder.cancelled"
====
